---- MODULE Spec2Model ----
(***************************************************************************)
(* Partial-sum stores of src/lib/partial_sums.py: the string-dispatched    *)
(* NoisePartialSumStore and the class-per-strategy stores derived from     *)
(* _NoisePartialSumStore.  One store object is constructed (Init) and is   *)
(* then driven by add / release calls; under PairSpec the two stores of    *)
(* one strategy are driven side by side.  Noise values are integers; every *)
(* draw of the noise generator is a nondeterministic value of NoiseVals.   *)
(* A noise generator is always supplied to the constructor, times are      *)
(* integers >= 1, and an exception leaves the object as the statements     *)
(* executed before it left it (variable raised names the exception).       *)
(***************************************************************************)
EXTENDS Integers, Sequences, FiniteSets, TLC

\* ---------------------------------------------------------------- bounds
\* largest time an add is called with under Spec (any order of times)
MaxTime == 4
\* number of add calls under Spec
MaxAdds == 4
\* number of consecutive add calls (times 1..MaxSteps) under SeqSpec
MaxSteps == 16
\* largest time of an add under PairSpec (strictly increasing times)
MaxPairTime == 7
\* largest block size: noise_generator.T is b*b, TwoLevel block_size is b
MaxBlock == 3

\* ------------------------------------------------------- program constant
START_TIME == 1

\* The values a noise draw (or a caller-supplied noise) takes.  No branch of the
\* code reads a noise value, so two values, one of them the zero of zeros(),
\* exercise every path.
NoiseVals == {0, 1}

\* ------------------------------------------------------------- arithmetic
RECURSIVE Log2Floor(_)
\* int(np.log2(x)) for x >= 1
Log2Floor(x) == IF x <= 1 THEN 0 ELSE 1 + Log2Floor(x \div 2)

RECURSIVE Pow2(_)
Pow2(i) == IF i = 0 THEN 1 ELSE 2 * Pow2(i - 1)

RECURSIVE BitAnd(_, _)
\* a & b on non-negative integers
BitAnd(a, b) ==
  IF a = 0 \/ b = 0 THEN 0
  ELSE (IF a % 2 = 1 /\ b % 2 = 1 THEN 1 ELSE 0) + 2 * BitAnd(a \div 2, b \div 2)

\* mutant: 1 is not taken for a power of two
IsPowerOfTwo_AboveOne(val) == val > 1 /\ BitAnd(val, val - 1) = 0

is_power_of_two(val) == val > 0 /\ BitAnd(val, val - 1) = 0

\* 2**int(np.log2(time))
time_horizon(time) == Pow2(Log2Floor(time))

\* a noise scale computed as a quotient by np.log2 of the time horizon of time
Quotient(time) ==
  [time |-> time, time_horizon |-> time_horizon(time),
   divisor |-> Log2Floor(time_horizon(time))]

RECURSIVE ISqrt(_, _)
ISqrt(x, r) == IF (r + 1) * (r + 1) > x THEN r ELSE ISqrt(x, r + 1)

\* int(np.sqrt(T))
block_size_of(horizon) == ISqrt(horizon, 0)

\* bound on the times of either specification
MaxT == IF MaxTime > MaxSteps THEN MaxTime ELSE MaxSteps

\* a noise generator that returns 0 at every draw: used to count the draws a
\* call makes, which do not depend on the values drawn
ZeroDraws == [i \in 1..MaxT |-> 0]
\* the values k successive draws of the noise generator can return
Draws(k) == [1..k -> NoiseVals]
\* the same for a noise generator whose draws return values of vals
DrawsFrom(vals, k) == [1..k -> vals]

\* ------------------------------------------------------------ data model
NoisePartialSum(start, size, noise) == [start |-> start, size |-> size, noise |-> noise]

\* an attribute holding None is the empty tuple, one holding p is <<p>>
None == <<>>
Some(p) == <<p>>
IsSet(o) == o # None
Val(o) == o[1]

\* dict operations
EmptyDict == [x \in {} |-> NoisePartialSum(0, 0, 0)]
Put(s, k, v) == [x \in (DOMAIN s) \cup {k} |-> IF x = k THEN v ELSE s[x]]
Del(s, k) == [x \in (DOMAIN s) \ {k} |-> s[x]]

RECURSIVE SumOver(_, _)
\* sum of the noise fields of the entries of dict s with keys in ks
SumOver(s, ks) ==
  IF ks = {} THEN 0
  ELSE LET k == CHOOSE x \in ks : TRUE IN s[k].noise + SumOver(s, ks \ {k})

SetMax(S) == CHOOSE x \in S : \A y \in S : y <= x

\* ------------------------------------------ outcome of a call on a dict
\* the dict as the call leaves it, the exception it raised, and the number of
\* noise-generator draws it made after the unit noise
Ok(s, k) == [store |-> s, raised |-> "none", draws |-> k]
Raise(s, e, k) == [store |-> s, raised |-> e, draws |-> k]

\* ------------------------------------------------- NoisePartialSumStore
\* mutant: the noise-type check guards the tree strategy instead of the others
Init_TreeNeedsLaplace(noise_type, method) ==
  IF method = "tree" /\ noise_type # "laplacian"
  THEN [raised |-> "NotImplementedError", attrs |-> {}, release_method |-> "unset"]
  ELSE IF method \notin {"tree", "every", "once", "sqrt", "hybrid"}
  THEN [raised |-> "NotImplementedError", attrs |-> {}, release_method |-> "unset"]
  ELSE [raised |-> "none",
        attrs |-> {"noise_generator", "release_method", "is_theta_level", "store", "START_TIME"},
        release_method |-> method]

\* mutant: the strategy name is not checked against the recognised names
Init_NoNameCheck(noise_type, method) ==
  IF method # "tree" /\ noise_type # "laplacian"
  THEN [raised |-> "NotImplementedError", attrs |-> {}, release_method |-> "unset"]
  ELSE [raised |-> "none",
        attrs |-> {"noise_generator", "release_method", "is_theta_level", "store", "START_TIME"},
        release_method |-> method]

\* The constructor: the attributes it has assigned when it returns or raises.
NoisePartialSumStore_init(noise_type, method) ==
  IF method # "tree" /\ noise_type # "laplacian"
  THEN [raised |-> "NotImplementedError", attrs |-> {}, release_method |-> "unset"]
  ELSE IF method \notin {"tree", "every", "once", "sqrt", "hybrid"}
  THEN [raised |-> "NotImplementedError", attrs |-> {}, release_method |-> "unset"]
  ELSE [raised |-> "none",
        attrs |-> {"noise_generator", "release_method", "is_theta_level", "store", "START_TIME"},
        release_method |-> method]

\* mutant: the entry added after START_TIME is not deleted
ConsolidateForOnce_NoDelete(s, time) == Ok(s, 0)

consolidate_for_once(s, time) ==
  Ok(IF time # START_TIME THEN Del(s, time) ELSE s, 0)

consolidate_for_every(s, time) ==
  IF START_TIME \notin DOMAIN s THEN Raise(s, "KeyError", 0)
  ELSE LET current_total_noise == s[START_TIME].noise
           newly_added_noise == s[time].noise
           new_total_noise == current_total_noise + newly_added_noise
           new_psum_size == time
           s1 == Put(s, START_TIME, NoisePartialSum(1, new_psum_size, new_total_noise))
       IN Ok(IF time # START_TIME THEN Del(s1, time) ELSE s1, 0)

\* mutant: the noise of the deleted unit entries is folded into the block-level entry
ConsolidateForSqrt_FoldUnits(s, time, horizon, d) ==
  LET block_size == block_size_of(horizon)
      block_start == time - block_size + 1
      s1 == [x \in (DOMAIN s) \ (block_start..time) |-> s[x]]
      block_noise == d[1] + SumOver(s, (DOMAIN s) \cap (block_start..time))
  IN IF block_start \notin DOMAIN s THEN Ok(s, 0)
     ELSE IF block_start = START_TIME \/ START_TIME \notin DOMAIN s1
     THEN Ok(Put(s1, START_TIME, NoisePartialSum(START_TIME, block_size, block_noise)), 1)
     ELSE Ok(Put(s1, START_TIME,
                 NoisePartialSum(START_TIME, s1[START_TIME].size + block_size,
                                 s1[START_TIME].noise + block_noise)), 1)

\* mutant: a completed block replaces the block-level entry instead of extending it
ConsolidateForSqrt_LastBlockOnly(s, time, horizon, d) ==
  LET block_size == block_size_of(horizon)
      block_start == time - block_size + 1
  IN IF block_start \notin DOMAIN s THEN Ok(s, 0)
     ELSE Ok(Put([x \in (DOMAIN s) \ (block_start..time) |-> s[x]], START_TIME,
                 NoisePartialSum(START_TIME, block_size, d[1])), 1)

\* d[1] is the block-level draw laplacian(2*eps)
consolidate_for_sqrt(s, time, horizon, d) ==
  LET block_size == block_size_of(horizon)
      block_start == time - block_size + 1
      missing == {t \in block_start..time : t \notin DOMAIN s}
  IN IF block_start \notin DOMAIN s THEN Ok(s, 0)
     ELSE IF missing # {}
     THEN \* del self.store[_t] raises at the first absent key; earlier keys are gone
          LET stop == CHOOSE t \in missing : \A u \in missing : t <= u
          IN Raise([x \in (DOMAIN s) \ (block_start..(stop - 1)) |-> s[x]], "KeyError", 0)
     ELSE LET s1 == [x \in (DOMAIN s) \ (block_start..time) |-> s[x]]
              block_noise == d[1]
          IN IF block_start = START_TIME
             THEN Ok(Put(s1, START_TIME,
                         NoisePartialSum(START_TIME, block_size, block_noise)), 1)
             ELSE IF START_TIME \notin DOMAIN s1 THEN Raise(s1, "KeyError", 1)
             ELSE Ok(Put(s1, START_TIME,
                         NoisePartialSum(START_TIME, s1[START_TIME].size + block_size,
                                         s1[START_TIME].noise + block_noise)), 1)

\* mutant: the merged entry is stored under the key of the right child
RECURSIVE ConsolidateForTree_KeyedByTime(_, _, _, _)
ConsolidateForTree_KeyedByTime(s, time, d, k) ==
  LET prev_p_sum_time == s[time].start - s[time].size
  IN IF prev_p_sum_time \in DOMAIN s /\ s[time].size = s[prev_p_sum_time].size
     THEN ConsolidateForTree_KeyedByTime(
            Put(Del(s, prev_p_sum_time), time,
                NoisePartialSum(prev_p_sum_time, s[time].size * 2, d[k + 1])),
            time, d, k + 1)
     ELSE Ok(s, k)

\* mutant: a merge keeps the right child, so the number of entries does not drop
RECURSIVE ConsolidateForTree_KeepRightChild(_, _, _, _)
ConsolidateForTree_KeepRightChild(s, time, d, k) ==
  LET prev_p_sum_time == s[time].start - s[time].size
  IN IF prev_p_sum_time \in DOMAIN s /\ s[time].size = s[prev_p_sum_time].size
     THEN ConsolidateForTree_KeepRightChild(
            Put(s, prev_p_sum_time,
                NoisePartialSum(prev_p_sum_time, s[time].size * 2, d[k + 1])),
            prev_p_sum_time, d, k + 1)
     ELSE Ok(s, k)

RECURSIVE consolidate_for_tree(_, _, _, _)
\* d[k+1] is the generate_noise_tree draw of the merge made after k merges
consolidate_for_tree(s, time, d, k) ==
  LET prev_p_sum_time == s[time].start - s[time].size
  IN IF prev_p_sum_time \in DOMAIN s /\ s[time].size = s[prev_p_sum_time].size
     THEN LET new_size == s[time].size * 2
              new_noise == d[k + 1]
          IN consolidate_for_tree(
               Del(Put(s, prev_p_sum_time,
                       NoisePartialSum(prev_p_sum_time, new_size, new_noise)), time),
               prev_p_sum_time, d, k + 1)
     ELSE Ok(s, k)

\* mutant: the collapse at a power of two only replaces the START_TIME entry
RECURSIVE ConsolidateForHybrid_KeepTree(_, _, _, _)
ConsolidateForHybrid_KeepTree(s, time, d, k) ==
  IF is_power_of_two(time) /\ time > START_TIME
  THEN IF START_TIME \notin DOMAIN s THEN Raise(s, "KeyError", k)
       ELSE Ok(Put(Del(s, time), START_TIME,
                   NoisePartialSum(START_TIME, time, s[START_TIME].noise + s[time].noise)), k)
  ELSE LET prev_p_sum_time == s[time].start - s[time].size
       IN IF prev_p_sum_time \in DOMAIN s /\ s[time].size = s[prev_p_sum_time].size
          THEN ConsolidateForHybrid_KeepTree(
                 Del(Put(s, prev_p_sum_time,
                         NoisePartialSum(prev_p_sum_time, s[time].size * 2, d[k + 1])), time),
                 prev_p_sum_time, d, k + 1)
          ELSE Ok(s, k)

RECURSIVE consolidate_for_hybrid(_, _, _, _)
consolidate_for_hybrid(s, time, d, k) ==
  IF is_power_of_two(time) /\ time > START_TIME
  THEN IF START_TIME \notin DOMAIN s THEN Raise(s, "KeyError", k)
       ELSE LET new_size == time
                new_noise == s[START_TIME].noise + s[time].noise
            IN Ok([x \in {START_TIME} |-> NoisePartialSum(START_TIME, new_size, new_noise)], k)
  ELSE LET prev_p_sum_time == s[time].start - s[time].size
       IN IF prev_p_sum_time \in DOMAIN s /\ s[time].size = s[prev_p_sum_time].size
          THEN LET new_size == s[time].size * 2
                   new_noise == d[k + 1]
               IN consolidate_for_hybrid(
                    Del(Put(s, prev_p_sum_time,
                            NoisePartialSum(prev_p_sum_time, new_size, new_noise)), time),
                    prev_p_sum_time, d, k + 1)
          ELSE Ok(s, k)

consolidate_store(method, s, time, horizon, d) ==
  CASE method = "once" -> consolidate_for_once(s, time)
    [] method = "every" -> consolidate_for_every(s, time)
    [] method = "sqrt" -> consolidate_for_sqrt(s, time, horizon, d)
    [] method = "tree" -> consolidate_for_tree(s, time, d, 0)
    [] method = "hybrid" -> consolidate_for_hybrid(s, time, d, 0)
    [] OTHER -> Ok(s, 0)

\* the noise add_noise stores for the unit entry; x is what the sampler returns
sampled_noise(method, s, x) ==
  IF method = "once" THEN (IF Cardinality(DOMAIN s) = 0 THEN x ELSE 0) ELSE x

\* the quotients add_noise computes for the scale of the unit noise
add_noise_quotients(method, time) ==
  IF method = "hybrid" /\ ~is_power_of_two(time) THEN {Quotient(time)} ELSE {}

add_noise(method, s, time, horizon, x, d) ==
  consolidate_store(method,
                    Put(s, time, NoisePartialSum(time, 1, sampled_noise(method, s, x))),
                    time, horizon, d)

add_noise_custom(method, s, N, time, horizon, d) ==
  consolidate_store(method, Put(s, time, NoisePartialSum(time, 1, N)), time, horizon, d)

\* N = zeros(); N += p_sum.noise for every stored partial sum
release_noise(s) == SumOver(s, DOMAIN s)

\* ------------------------------------- _NoisePartialSumStore and subclasses
Base_add(s, time, noise) == Put(s, time, NoisePartialSum(time, 1, noise))

\* mutant: no early return for the empty store, so values()[0] raises
BaseRelease_NoEmptyCheck(s) ==
  IF Cardinality(DOMAIN s) = 0 THEN [ret |-> 0, raised |-> "IndexError"]
  ELSE [ret |-> SumOver(s, DOMAIN s), raised |-> "none"]

\* the value release returns and the exception it raises
Base_release(s) ==
  IF Cardinality(DOMAIN s) = 0 THEN [ret |-> 0, raised |-> "none"]
  ELSE [ret |-> SumOver(s, DOMAIN s), raised |-> "none"]

OncePartialSumStore_consolidate(s) ==
  IF START_TIME \in DOMAIN s
  THEN Ok([x \in {START_TIME} |-> s[START_TIME]], 0)
  ELSE Ok(EmptyDict, 0)

EveryPartialSumStore_consolidate(s) ==
  IF Cardinality(DOMAIN s) = 0 THEN Ok(s, 0)
  ELSE LET total_noise == SumOver(s, DOMAIN s)
       IN Ok([x \in {START_TIME} |-> NoisePartialSum(START_TIME, 1, total_noise)], 0)

\* mutant: the merged entry carries the sum of its children's noise
RECURSIVE TreeHelper_SumChildren(_, _, _, _)
TreeHelper_SumChildren(s, time, d, k) ==
  LET prev_p_sum_time == s[time].start - s[time].size
  IN IF prev_p_sum_time \in DOMAIN s /\ s[time].size = s[prev_p_sum_time].size
     THEN TreeHelper_SumChildren(
            Del(Put(s, prev_p_sum_time,
                    NoisePartialSum(prev_p_sum_time, s[time].size * 2,
                                    s[time].noise + s[prev_p_sum_time].noise)), time),
            prev_p_sum_time, d, k + 1)
     ELSE Ok(s, k)

\* mutant: one merge, without the recursive call on the merged entry
TreeHelper_MergeOnce(s, time, d, k) ==
  LET prev_p_sum_time == s[time].start - s[time].size
  IN IF prev_p_sum_time \in DOMAIN s /\ s[time].size = s[prev_p_sum_time].size
     THEN Ok(Del(Put(s, prev_p_sum_time,
                     NoisePartialSum(prev_p_sum_time, s[time].size * 2, d[k + 1])), time),
             k + 1)
     ELSE Ok(s, k)

RECURSIVE TreePartialSumStore_consolidate_helper(_, _, _, _)
TreePartialSumStore_consolidate_helper(s, time, d, k) ==
  LET prev_p_sum_time == s[time].start - s[time].size
  IN IF prev_p_sum_time \in DOMAIN s /\ s[time].size = s[prev_p_sum_time].size
     THEN LET new_size == s[time].size * 2
              new_noise == d[k + 1]
          IN TreePartialSumStore_consolidate_helper(
               Del(Put(s, prev_p_sum_time,
                       NoisePartialSum(prev_p_sum_time, new_size, new_noise)), time),
               prev_p_sum_time, d, k + 1)
     ELSE Ok(s, k)

\* mutant: consolidation starts from the smallest stored start
TreeConsolidate_FromMinStart(s, d) ==
  LET min_psum_start == CHOOSE x \in {s[k].start : k \in DOMAIN s} :
                          \A y \in {s[k].start : k \in DOMAIN s} : x <= y
  IN TreePartialSumStore_consolidate_helper(s, min_psum_start, d, 0)

TreePartialSumStore_consolidate(s, d) ==
  LET max_psum_start == SetMax({s[k].start : k \in DOMAIN s})
  IN TreePartialSumStore_consolidate_helper(s, max_psum_start, d, 0)

\* TwoLevelPartialSumStore: add then consolidate on (single, block, new_psum)
TwoLevelPartialSumStore_add(time, noise) == Some(NoisePartialSum(time, 1, noise))

\* mutant: the single-level entry keeps the noise of the latest unit only
TwoLevelConsolidate_LastUnitOnly(single, block, new, bsize, d) ==
  LET single1 == IF IsSet(single)
                 THEN NoisePartialSum(Val(single).start, Val(single).size + 1,
                                      Val(new).noise)
                 ELSE NoisePartialSum(Val(new).start, Val(new).size, Val(new).noise)
  IN IF single1.size >= bsize
     THEN LET new_noise == d[1]
              block1 == IF IsSet(block)
                        THEN NoisePartialSum(Val(block).start, Val(block).size + single1.size,
                                             Val(block).noise + new_noise)
                        ELSE NoisePartialSum(START_TIME, single1.size, new_noise)
          IN [single_level_store |-> None, block_level_store |-> Some(block1),
              new_psum |-> None, draws |-> 1]
     ELSE [single_level_store |-> Some(single1), block_level_store |-> block,
           new_psum |-> None, draws |-> 0]

\* mutant: the pending entry is not cleared once folded in
TwoLevelConsolidate_KeepNew(single, block, new, bsize, d) ==
  LET single1 == IF IsSet(single)
                 THEN NoisePartialSum(Val(single).start, Val(single).size + 1,
                                      Val(single).noise + Val(new).noise)
                 ELSE NoisePartialSum(Val(new).start, Val(new).size, Val(new).noise)
  IN IF single1.size >= bsize
     THEN LET new_noise == d[1]
              block1 == IF IsSet(block)
                        THEN NoisePartialSum(Val(block).start, Val(block).size + single1.size,
                                             Val(block).noise + new_noise)
                        ELSE NoisePartialSum(START_TIME, single1.size, new_noise)
          IN [single_level_store |-> None, block_level_store |-> Some(block1),
              new_psum |-> new, draws |-> 1]
     ELSE [single_level_store |-> Some(single1), block_level_store |-> block,
           new_psum |-> new, draws |-> 0]

TwoLevelPartialSumStore_consolidate(single, block, new, bsize, d) ==
  LET single1 == IF IsSet(single)
                 THEN NoisePartialSum(Val(single).start, Val(single).size + 1,
                                      Val(single).noise + Val(new).noise)
                 ELSE NoisePartialSum(Val(new).start, Val(new).size, Val(new).noise)
  IN IF single1.size >= bsize
     THEN LET new_noise == d[1]
              block1 == IF IsSet(block)
                        THEN NoisePartialSum(Val(block).start, Val(block).size + single1.size,
                                             Val(block).noise + new_noise)
                        ELSE NoisePartialSum(START_TIME, single1.size, new_noise)
          IN [single_level_store |-> None, block_level_store |-> Some(block1),
              new_psum |-> None, draws |-> 1]
     ELSE [single_level_store |-> Some(single1), block_level_store |-> block,
           new_psum |-> None, draws |-> 0]

\* mutant: the branch for both entries present is missing
TwoLevelRelease_BlockFirst(single, block) ==
  IF IsSet(block) THEN Val(block).noise
  ELSE IF IsSet(single) THEN Val(single).noise
  ELSE 0

TwoLevelPartialSumStore_release(single, block) ==
  IF IsSet(block) /\ IsSet(single) THEN Val(block).noise + Val(single).noise
  ELSE IF IsSet(block) THEN Val(block).noise
  ELSE IF IsSet(single) THEN Val(single).noise
  ELSE 0

\* mutant: one tree-level merge, without the recursive call on the merged entry
HybridHelper_MergeOnce(ts, time, d, k) ==
  LET prev_p_sum_time == ts[time].start - ts[time].size
  IN IF prev_p_sum_time \in DOMAIN ts /\ ts[time].size = ts[prev_p_sum_time].size
     THEN Ok(Del(Put(ts, prev_p_sum_time,
                     NoisePartialSum(prev_p_sum_time, ts[time].size * 2, d[k + 1])), time),
             k + 1)
     ELSE Ok(ts, k)

RECURSIVE HybridPartialSumStore_consolidate_helper(_, _, _, _)
HybridPartialSumStore_consolidate_helper(ts, time, d, k) ==
  LET prev_p_sum_time == ts[time].start - ts[time].size
  IN IF prev_p_sum_time \in DOMAIN ts /\ ts[time].size = ts[prev_p_sum_time].size
     THEN LET new_size == ts[time].size * 2
              new_noise == d[k + 1]
          IN HybridPartialSumStore_consolidate_helper(
               Del(Put(ts, prev_p_sum_time,
                       NoisePartialSum(prev_p_sum_time, new_size, new_noise)), time),
               prev_p_sum_time, d, k + 1)
     ELSE Ok(ts, k)

HybridPartialSumStore_add(time, noise) == Some(NoisePartialSum(time, 1, noise))

\* mutant: the tree-level entries survive the collapse at a power of two
HybridConsolidate_KeepTree(ts, log, new, d) ==
  LET time == Val(new).start
      noise == Val(new).noise
  IN IF time = START_TIME
     THEN [tree_store |-> ts, log_store |-> Some(NoisePartialSum(time, 1, noise)),
           new_noise |-> None, raised |-> "none", draws |-> 0]
     ELSE IF is_power_of_two(time)
     THEN IF ~IsSet(log)
          THEN \* self.log_store.noise on None
               [tree_store |-> ts, log_store |-> log, new_noise |-> new,
                raised |-> "AttributeError", draws |-> 0]
          ELSE [tree_store |-> ts,
                log_store |-> Some(NoisePartialSum(START_TIME, time, Val(log).noise + noise)),
                new_noise |-> None, raised |-> "none", draws |-> 0]
     ELSE LET r == HybridPartialSumStore_consolidate_helper(
                     Put(ts, time, NoisePartialSum(time, 1, noise)), time, d, 0)
          IN [tree_store |-> r.store, log_store |-> log, new_noise |-> None,
              raised |-> "none", draws |-> r.draws]

\* consolidate on (tree_store, log_store, new_noise)
HybridPartialSumStore_consolidate(ts, log, new, d) ==
  LET time == Val(new).start
      noise == Val(new).noise
  IN IF time = START_TIME
     THEN [tree_store |-> ts, log_store |-> Some(NoisePartialSum(time, 1, noise)),
           new_noise |-> None, raised |-> "none", draws |-> 0]
     ELSE IF is_power_of_two(time)
     THEN IF ~IsSet(log)
          THEN \* self.log_store.noise on None
               [tree_store |-> ts, log_store |-> log, new_noise |-> new,
                raised |-> "AttributeError", draws |-> 0]
          ELSE [tree_store |-> EmptyDict,
                log_store |-> Some(NoisePartialSum(START_TIME, time, Val(log).noise + noise)),
                new_noise |-> None, raised |-> "none", draws |-> 0]
     ELSE LET r == HybridPartialSumStore_consolidate_helper(
                     Put(ts, time, NoisePartialSum(time, 1, noise)), time, d, 0)
          IN [tree_store |-> r.store, log_store |-> log, new_noise |-> None,
              raised |-> "none", draws |-> r.draws]

RECURSIVE HybridPartialSumStore_helper_quotients(_, _)
\* the quotients eps / np.log2(T) of the merges _consolidate_helper(time) makes
HybridPartialSumStore_helper_quotients(ts, time) ==
  LET prev_p_sum_time == ts[time].start - ts[time].size
  IN IF prev_p_sum_time \in DOMAIN ts /\ ts[time].size = ts[prev_p_sum_time].size
     THEN {Quotient(time)}
            \cup HybridPartialSumStore_helper_quotients(
                   Del(Put(ts, prev_p_sum_time,
                           NoisePartialSum(prev_p_sum_time, ts[time].size * 2, 0)), time),
                   prev_p_sum_time)
     ELSE {}

\* the quotients computed by consolidate on (tree_store, new_noise)
HybridPartialSumStore_quotients(ts, new) ==
  LET time == Val(new).start
  IN IF time = START_TIME \/ is_power_of_two(time) THEN {}
     ELSE HybridPartialSumStore_helper_quotients(
            Put(ts, time, NoisePartialSum(time, 1, Val(new).noise)), time)

\* mutant: total_noise aliases self.log_store.noise (no np.copy), so += writes it
HybridRelease_NoCopy(ts, log) ==
  IF ~IsSet(log) THEN [ret |-> 0, log_store |-> log]
  ELSE LET total == Val(log).noise + SumOver(ts, DOMAIN ts)
       IN [ret |-> total,
           log_store |-> Some(NoisePartialSum(Val(log).start, Val(log).size, total))]

\* release: the value returned and log_store as release leaves it
\* (total_noise is np.copy(self.log_store.noise), so += does not touch log_store)
HybridPartialSumStore_release(ts, log) ==
  IF ~IsSet(log) THEN [ret |-> 0, log_store |-> log]
  ELSE [ret |-> Val(log).noise + SumOver(ts, DOMAIN ts), log_store |-> log]

\* ------------------------------------------------------------------ state
VARIABLES
  cls,                 \* class of the constructed store
  noise_type,          \* noise_generator.noise_type
  requested,           \* the release_method argument given to NoisePartialSumStore
  T,                   \* noise_generator.T
  attrs,               \* attributes the constructor assigned ({} when it raised)
  release_method,      \* NoisePartialSumStore.release_method
  block_size,          \* TwoLevelPartialSumStore.block_size
  store,               \* self.store
  single_level_store,  \* TwoLevelPartialSumStore
  block_level_store,
  new_psum,
  tree_store,          \* HybridPartialSumStore
  log_store,
  new_noise,
  raised,              \* exception raised by the last call ("none" when it returned)
  released,            \* <<v>> when the last call was a release that returned v
  n,                   \* number of add calls made so far
  consec,              \* the add calls so far were made at times 1, 2, ..., n
  maxTime,             \* largest time of the add calls so far (0 when none)
  sumIn,               \* sum of the unit noises of the add calls so far
  firstNoise,          \* unit noise of the first add call
  draws,               \* noise-generator draws the latest add made after its unit noise
  peer_store,          \* self.store of a TreePartialSumStore driven side by side (PairSpec)
  peer_draws,          \* draws of the latest add of the store driven side by side
  peer_raised,         \* exception raised by the last call on the store driven side by side
  quotients            \* quotients by log2 of a time horizon computed by the latest add

config == <<cls, noise_type, requested, T, attrs, release_method, block_size>>
twolevel == <<single_level_store, block_level_store, new_psum>>
hybrid == <<tree_store, log_store, new_noise>>
calls == <<n, consec, maxTime, sumIn, firstNoise>>
peer == <<peer_store, peer_draws, peer_raised>>
vars == <<config, store, twolevel, hybrid, raised, released, calls, draws, peer, quotients>>

Subclasses == {"OncePartialSumStore", "EveryPartialSumStore", "TwoLevelPartialSumStore",
               "TreePartialSumStore", "HybridPartialSumStore"}
\* release_method arguments tried, recognised or not
MethodNames == {"tree", "every", "once", "sqrt", "hybrid", "two-level", "bogus"}
NoiseTypes == {"laplacian", "gaussian"}

\* attributes assigned by _NoisePartialSumStore.__init__ and the subclass __init__
SubclassAttrs(c) ==
  {"store", "START", "noise_generator"}
    \cup (IF c = "TwoLevelPartialSumStore"
          THEN {"block_size", "block_level_store", "single_level_store", "new_psum"} ELSE {})
    \cup (IF c = "HybridPartialSumStore" THEN {"tree_store", "log_store", "new_noise"} ELSE {})

InitFields ==
  /\ store = EmptyDict
  /\ single_level_store = None /\ block_level_store = None /\ new_psum = None
  /\ tree_store = EmptyDict /\ log_store = None /\ new_noise = None
  /\ released = None
  /\ n = 0 /\ consec = TRUE /\ maxTime = 0 /\ sumIn = 0 /\ firstNoise = 0 /\ draws = 0
  /\ peer_store = EmptyDict /\ peer_draws = 0 /\ peer_raised = "none"
  /\ quotients = {}

\* Block sizes tried for a strategy: T = b*b makes int(sqrt(T)) = b.  Only sqrt
\* and two-level branch on it; elsewhere T only scales the noise drawn.
Blocks(strategy) ==
  IF strategy \in {"sqrt", "TwoLevelPartialSumStore"} THEN 1..MaxBlock ELSE {MaxBlock}

\* the state after the constructor call, for every constructor and argument
Init ==
  /\ InitFields
  /\ \/ \E nt \in NoiseTypes, m \in MethodNames : \E b \in Blocks(m) :
               LET r == NoisePartialSumStore_init(nt, m)
               IN /\ cls = "NoisePartialSumStore"
                  /\ T = b * b
                  /\ noise_type = nt
                  /\ requested = m
                  /\ attrs = r.attrs
                  /\ release_method = r.release_method
                  /\ raised = r.raised
                  /\ block_size = 0
     \/ \E c \in Subclasses : \E b \in Blocks(c) :
               /\ cls = c
               /\ T = b * b
               /\ noise_type = "laplacian"
               /\ requested = "unset"
               /\ attrs = SubclassAttrs(c)
               /\ release_method = "unset"
               /\ raised = "none"
               /\ block_size = IF c = "TwoLevelPartialSumStore" THEN b ELSE 0

\* the store object exists
Constructed == "store" \in attrs

Max2(a, b) == IF a > b THEN a ELSE b

\* bookkeeping of an add call made at `time` with unit noise `noise`
Called(time, noise) ==
  /\ n' = n + 1
  /\ consec' = (consec /\ time = n + 1)
  /\ maxTime' = Max2(maxTime, time)
  /\ sumIn' = sumIn + noise
  /\ firstNoise' = IF n = 0 THEN noise ELSE firstNoise

\* ---------------------------------------------------------------- actions
\* Every add action draws the values d of the noise-generator calls the
\* consolidation makes; their number is read off a run with ZeroDraws.
\* AddNoise with a noise generator whose draws return values of vals
AddNoiseWith(time, x, vals) ==
  /\ Constructed /\ cls = "NoisePartialSumStore"
  /\ \E d \in DrawsFrom(vals, add_noise(release_method, store, time, T, x, ZeroDraws).draws) :
       LET r == add_noise(release_method, store, time, T, x, d)
       IN store' = r.store /\ raised' = r.raised /\ draws' = r.draws
  /\ released' = None
  /\ Called(time, sampled_noise(release_method, store, x))
  /\ quotients' = add_noise_quotients(release_method, time)
  /\ UNCHANGED <<config, peer, twolevel, hybrid>>

AddNoise(time, x) == AddNoiseWith(time, x, NoiseVals)

\* AddNoiseCustom with a noise generator whose draws return values of vals
AddNoiseCustomWith(time, N, vals) ==
  /\ Constructed /\ cls = "NoisePartialSumStore"
  /\ \E d \in DrawsFrom(vals, add_noise_custom(release_method, store, N, time, T, ZeroDraws).draws) :
       LET r == add_noise_custom(release_method, store, N, time, T, d)
       IN store' = r.store /\ raised' = r.raised /\ draws' = r.draws
  /\ released' = None
  /\ Called(time, N)
  /\ quotients' = {}
  /\ UNCHANGED <<config, peer, twolevel, hybrid>>

AddNoiseCustom(time, N) == AddNoiseCustomWith(time, N, NoiseVals)

ReleaseNoise ==
  /\ Constructed /\ cls = "NoisePartialSumStore"
  /\ released' = Some(release_noise(store))
  /\ raised' = "none"
  /\ UNCHANGED <<config, peer, store, twolevel, hybrid, calls, draws, quotients>>

OnceAdd(time, noise) ==
  /\ Constructed /\ cls = "OncePartialSumStore"
  /\ LET r == OncePartialSumStore_consolidate(Base_add(store, time, noise))
     IN store' = r.store /\ raised' = r.raised /\ draws' = r.draws
  /\ released' = None
  /\ Called(time, noise)
  /\ quotients' = {}
  /\ UNCHANGED <<config, peer, twolevel, hybrid>>

EveryAdd(time, noise) ==
  /\ Constructed /\ cls = "EveryPartialSumStore"
  /\ LET r == EveryPartialSumStore_consolidate(Base_add(store, time, noise))
     IN store' = r.store /\ raised' = r.raised /\ draws' = r.draws
  /\ released' = None
  /\ Called(time, noise)
  /\ quotients' = {}
  /\ UNCHANGED <<config, peer, twolevel, hybrid>>

\* TreeAdd with a noise generator whose draws return values of vals
TreeAddWith(time, noise, vals) ==
  /\ Constructed /\ cls = "TreePartialSumStore"
  /\ \E d \in DrawsFrom(vals, TreePartialSumStore_consolidate(
                      Base_add(store, time, noise), ZeroDraws).draws) :
       LET r == TreePartialSumStore_consolidate(Base_add(store, time, noise), d)
       IN store' = r.store /\ raised' = r.raised /\ draws' = r.draws
  /\ released' = None
  /\ Called(time, noise)
  /\ quotients' = {}
  /\ UNCHANGED <<config, peer, twolevel, hybrid>>

TreeAdd(time, noise) == TreeAddWith(time, noise, NoiseVals)

\* release of Once / Every / Tree stores (inherited)
Release ==
  /\ Constructed /\ cls \in {"OncePartialSumStore", "EveryPartialSumStore", "TreePartialSumStore"}
  /\ LET r == Base_release(store)
     IN /\ raised' = r.raised
        /\ released' = IF r.raised = "none" THEN Some(r.ret) ELSE None
  /\ UNCHANGED <<config, peer, store, twolevel, hybrid, calls, draws, quotients>>

\* TwoLevelAdd with a noise generator whose draws return values of vals
TwoLevelAddWith(time, noise, vals) ==
  /\ Constructed /\ cls = "TwoLevelPartialSumStore"
  /\ \E d \in DrawsFrom(vals, TwoLevelPartialSumStore_consolidate(
                      single_level_store, block_level_store,
                      TwoLevelPartialSumStore_add(time, noise), block_size, ZeroDraws).draws) :
       LET r == TwoLevelPartialSumStore_consolidate(
                  single_level_store, block_level_store,
                  TwoLevelPartialSumStore_add(time, noise), block_size, d)
       IN /\ single_level_store' = r.single_level_store
          /\ block_level_store' = r.block_level_store
          /\ new_psum' = r.new_psum
          /\ draws' = r.draws
  /\ raised' = "none" /\ released' = None
  /\ Called(time, noise)
  /\ quotients' = {}
  /\ UNCHANGED <<config, peer, store, hybrid>>

TwoLevelAdd(time, noise) == TwoLevelAddWith(time, noise, NoiseVals)

TwoLevelRelease ==
  /\ Constructed /\ cls = "TwoLevelPartialSumStore"
  /\ released' = Some(TwoLevelPartialSumStore_release(single_level_store, block_level_store))
  /\ raised' = "none"
  /\ UNCHANGED <<config, peer, store, twolevel, hybrid, calls, draws, quotients>>

\* HybridAdd with a noise generator whose draws return values of vals
HybridAddWith(time, noise, vals) ==
  /\ Constructed /\ cls = "HybridPartialSumStore"
  /\ \E d \in DrawsFrom(vals, HybridPartialSumStore_consolidate(
                      tree_store, log_store,
                      HybridPartialSumStore_add(time, noise), ZeroDraws).draws) :
       LET r == HybridPartialSumStore_consolidate(
                  tree_store, log_store, HybridPartialSumStore_add(time, noise), d)
       IN /\ tree_store' = r.tree_store
          /\ log_store' = r.log_store
          /\ new_noise' = r.new_noise
          /\ raised' = r.raised
          /\ draws' = r.draws
  /\ released' = None
  /\ Called(time, noise)
  /\ quotients' = HybridPartialSumStore_quotients(tree_store, HybridPartialSumStore_add(time, noise))
  /\ UNCHANGED <<config, peer, store, twolevel>>

HybridAdd(time, noise) == HybridAddWith(time, noise, NoiseVals)

HybridRelease ==
  /\ Constructed /\ cls = "HybridPartialSumStore"
  /\ LET r == HybridPartialSumStore_release(tree_store, log_store)
     IN released' = Some(r.ret) /\ log_store' = r.log_store
  /\ raised' = "none"
  /\ UNCHANGED <<config, peer, store, twolevel, tree_store, new_noise, calls, draws, quotients>>

\* ---------------------------------------------------------- specifications
\* Spec: up to MaxAdds add calls at any times of 1..MaxTime, in any order.
Times == {t \in 1..MaxTime : n < MaxAdds}

Next ==
  \/ \E time \in Times, x \in NoiseVals : AddNoise(time, x)
  \/ \E time \in Times, N \in NoiseVals : AddNoiseCustom(time, N)
  \/ ReleaseNoise
  \/ \E time \in Times, noise \in NoiseVals : OnceAdd(time, noise)
  \/ \E time \in Times, noise \in NoiseVals : EveryAdd(time, noise)
  \/ \E time \in Times, noise \in NoiseVals : TreeAdd(time, noise)
  \/ Release
  \/ \E time \in Times, noise \in NoiseVals : TwoLevelAdd(time, noise)
  \/ TwoLevelRelease
  \/ \E time \in Times, noise \in NoiseVals : HybridAdd(time, noise)
  \/ HybridRelease

Spec == Init /\ [][Next]_vars

\* SeqSpec: the caller of the contract, one add per step at times 1, 2, ..., MaxSteps.
SeqTimes == {t \in {n + 1} : t <= MaxSteps}

SeqNext ==
  \/ \E time \in SeqTimes, x \in NoiseVals : AddNoise(time, x)
  \/ \E time \in SeqTimes, N \in NoiseVals : AddNoiseCustom(time, N)
  \/ ReleaseNoise
  \/ \E time \in SeqTimes, noise \in NoiseVals : OnceAdd(time, noise)
  \/ \E time \in SeqTimes, noise \in NoiseVals : EveryAdd(time, noise)
  \/ \E time \in SeqTimes, noise \in NoiseVals : TreeAdd(time, noise)
  \/ Release
  \/ \E time \in SeqTimes, noise \in NoiseVals : TwoLevelAdd(time, noise)
  \/ TwoLevelRelease
  \/ \E time \in SeqTimes, noise \in NoiseVals : HybridAdd(time, noise)
  \/ HybridRelease

SeqSpec == Init /\ [][SeqNext]_vars

\* OnesSpec: SeqSpec with a noise generator that returns the scalar 1 at every
\* draw (a caller that supplies the noise itself supplies such draws).
OnesNext ==
  \/ \E time \in SeqTimes : AddNoiseWith(time, 1, {1})
  \/ \E time \in SeqTimes : AddNoiseCustomWith(time, 1, {1})
  \/ ReleaseNoise
  \/ \E time \in SeqTimes : OnceAdd(time, 1)
  \/ \E time \in SeqTimes : EveryAdd(time, 1)
  \/ \E time \in SeqTimes : TreeAddWith(time, 1, {1})
  \/ Release
  \/ \E time \in SeqTimes : TwoLevelAddWith(time, 1, {1})
  \/ TwoLevelRelease
  \/ \E time \in SeqTimes : HybridAddWith(time, 1, {1})
  \/ HybridRelease

OnesSpec == Init /\ [][OnesNext]_vars

\* PairSpec: a NoisePartialSumStore with release_method 'tree' or 'hybrid' and
\* the class-per-strategy store of the same strategy (TreePartialSumStore on
\* peer_store, HybridPartialSumStore on tree_store / log_store), both freshly
\* constructed and then given the same strictly increasing add times.
PairInit ==
  /\ InitFields
  /\ \E m \in {"tree", "hybrid"} :
       LET r == NoisePartialSumStore_init("laplacian", m)
       IN /\ cls = "NoisePartialSumStore"
          /\ T = MaxBlock * MaxBlock
          /\ noise_type = "laplacian"
          /\ requested = m
          /\ attrs = r.attrs
          /\ release_method = r.release_method
          /\ raised = r.raised
          /\ block_size = 0

PairTimes == {t \in 1..MaxPairTime : t > maxTime}

\* add_noise(time) on the NoisePartialSumStore, add(time, noise) on the
\* TreePartialSumStore; x is the sampled unit noise, d and pd are the draws
PairTreeAdd(time, x, noise) ==
  /\ Constructed /\ release_method = "tree"
  /\ \E d \in Draws(add_noise("tree", store, time, T, x, ZeroDraws).draws) :
       LET r == add_noise("tree", store, time, T, x, d)
       IN store' = r.store /\ raised' = r.raised /\ draws' = r.draws
  /\ \E pd \in Draws(TreePartialSumStore_consolidate(
                        Base_add(peer_store, time, noise), ZeroDraws).draws) :
       LET r == TreePartialSumStore_consolidate(Base_add(peer_store, time, noise), pd)
       IN peer_store' = r.store /\ peer_raised' = r.raised /\ peer_draws' = r.draws
  /\ released' = None
  /\ Called(time, x)
  /\ quotients' = add_noise_quotients("tree", time)
  /\ UNCHANGED <<config, twolevel, hybrid>>

\* add_noise(time) on the NoisePartialSumStore, add(time, noise) on the
\* HybridPartialSumStore
PairHybridAdd(time, x, noise) ==
  /\ Constructed /\ release_method = "hybrid"
  /\ \E d \in Draws(add_noise("hybrid", store, time, T, x, ZeroDraws).draws) :
       LET r == add_noise("hybrid", store, time, T, x, d)
       IN store' = r.store /\ raised' = r.raised /\ draws' = r.draws
  /\ \E pd \in Draws(HybridPartialSumStore_consolidate(
                        tree_store, log_store,
                        HybridPartialSumStore_add(time, noise), ZeroDraws).draws) :
       LET r == HybridPartialSumStore_consolidate(
                  tree_store, log_store, HybridPartialSumStore_add(time, noise), pd)
       IN /\ tree_store' = r.tree_store
          /\ log_store' = r.log_store
          /\ new_noise' = r.new_noise
          /\ peer_raised' = r.raised
          /\ peer_draws' = r.draws
  /\ released' = None
  /\ Called(time, x)
  /\ quotients' = add_noise_quotients("hybrid", time)
                    \cup HybridPartialSumStore_quotients(
                           tree_store, HybridPartialSumStore_add(time, noise))
  /\ UNCHANGED <<config, twolevel, peer_store>>

PairNext ==
  \/ \E time \in PairTimes : \E x \in NoiseVals, noise \in NoiseVals : PairTreeAdd(time, x, noise)
  \/ \E time \in PairTimes : \E x \in NoiseVals, noise \in NoiseVals : PairHybridAdd(time, x, noise)

PairSpec == PairInit /\ [][PairNext]_vars

\* ------------------------------------------------------ strategy of a store
NStore(method) == Constructed /\ cls = "NoisePartialSumStore" /\ release_method = method
IsTree == NStore("tree") \/ (Constructed /\ cls = "TreePartialSumStore")
IsEvery == NStore("every") \/ (Constructed /\ cls = "EveryPartialSumStore")
IsOnce == NStore("once") \/ (Constructed /\ cls = "OncePartialSumStore")
IsHybrid == NStore("hybrid") \/ (Constructed /\ cls = "HybridPartialSumStore")

\* the powers of two of the binary representation of m
BinaryPowers(m) == {Pow2(i) : i \in {j \in 0..Log2Floor(m) : (m \div Pow2(j)) % 2 = 1}}

Sizes(s) == {s[k].size : k \in DOMAIN s}

\* noise of an optional partial sum
OptNoise(o) == IF IsSet(o) THEN Val(o).noise ELSE 0

\* sum of the noise fields of every partial sum the object holds, in any container
HeldNoise ==
  SumOver(store, DOMAIN store) + SumOver(tree_store, DOMAIN tree_store)
    + OptNoise(log_store) + OptNoise(single_level_store) + OptNoise(block_level_store)
    + OptNoise(new_psum) + OptNoise(new_noise)

\* the entries of s are keyed by their start and cover lo..hi, every step once
Tiles(s, lo, hi) ==
  /\ \A k \in DOMAIN s : s[k].start = k /\ s[k].size >= 1
  /\ \A k \in DOMAIN s : lo <= k /\ k + s[k].size - 1 <= hi
  /\ \A u \in lo..hi : Cardinality({k \in DOMAIN s : k <= u /\ u < k + s[k].size}) = 1

\* log-level entry and tree-level entries of a hybrid store
HybridLog ==
  IF cls = "NoisePartialSumStore"
  THEN (IF START_TIME \in DOMAIN store THEN Some(store[START_TIME]) ELSE None)
  ELSE log_store

HybridTree ==
  IF cls = "NoisePartialSumStore"
  THEN [x \in (DOMAIN store) \ {START_TIME} |-> store[x]]
  ELSE tree_store

\* the dict the recursive equal-size merge works on
MergeStore == IF cls = "HybridPartialSumStore" THEN tree_store ELSE store

\* the entry of s with the largest key has an equal-sized left neighbour
LastCanMerge(s) ==
  /\ DOMAIN s # {}
  /\ LET k == SetMax(DOMAIN s)
         prev_p_sum_time == s[k].start - s[k].size
     IN prev_p_sum_time \in DOMAIN s /\ s[k].size = s[prev_p_sum_time].size

\* the (start, size) pairs of the entries of a dict
Shape(s) == {<<s[k].start, s[k].size>> : k \in DOMAIN s}

\* ------------------------------------------------------------------ claims

\* C1: Tree strategy, after n >= 1 adds at times 1..n: the sizes of the stored
\* partial sums are pairwise distinct and are exactly the powers of two of the
\* binary representation of n, so there are popcount(n) <= floor(log2 n) + 1 entries.
C1_TreeBinaryDecomposition ==
  (IsTree /\ consec /\ n >= 1) =>
    /\ \A j, k \in DOMAIN store : j # k => store[j].size # store[k].size
    /\ Sizes(store) = BinaryPowers(n)
    /\ Cardinality(DOMAIN store) = Cardinality(BinaryPowers(n))
    /\ Cardinality(DOMAIN store) <= Log2Floor(n) + 1

C1_Witness ==
  /\ cls = "TreePartialSumStore" /\ consec /\ n = 7
  /\ Sizes(store) = {4, 2, 1} /\ Cardinality(DOMAIN store) = 3

\* C2: Every strategy, after n >= 1 adds at times 1..n: the store holds exactly
\* one entry, keyed START_TIME, and its size is n.
C2_EverySingleEntrySizeN ==
  (IsEvery /\ consec /\ n >= 1) =>
    /\ DOMAIN store = {START_TIME}
    /\ store[START_TIME].size = n

\* C3: Every strategy, after n >= 1 adds at times 1..n with noises x1..xn: the
\* single entry's noise, and release(), equal x1 + ... + xn.
C3_EveryNoiseIsSumOfInputs ==
  (IsEvery /\ consec /\ n >= 1) =>
    /\ DOMAIN store = {START_TIME}
    /\ store[START_TIME].noise = sumIn
    /\ (IsSet(released) => Val(released) = sumIn)

\* C4: Once strategy, after n >= 1 adds at times 1..n: the store holds exactly
\* one entry, keyed START_TIME, whose noise is the noise of the first add, and
\* release() returns that noise whatever noise later adds carried.
C4_OnceKeepsFirstNoise ==
  (IsOnce /\ consec /\ n >= 1) =>
    /\ DOMAIN store = {START_TIME}
    /\ store[START_TIME].noise = firstNoise
    /\ (IsSet(released) => Val(released) = firstNoise)

C4_Witness ==
  /\ IsOnce /\ consec /\ n >= 3 /\ sumIn > firstNoise /\ firstNoise = 1
  /\ IsSet(released) /\ Val(released) = 1

\* C5: an add whose time is not strictly greater than the time of every earlier
\* add (in particular one whose time is already a key) raises an error and
\* leaves every container of the store unchanged.
C5_AddFailsFast ==
  [][(n' = n + 1 /\ maxTime' = maxTime) =>
       (raised' # "none" /\ store' = store /\ twolevel' = twolevel /\ hybrid' = hybrid)]_vars

\* C6 (as claimed): no store exists that was constructed with the Tree strategy
\* and a noise source whose type is not Laplace.
C6_TreeRejectsNonLaplace ==
  ~(cls = "NoisePartialSumStore" /\ requested = "tree" /\ noise_type # "laplacian"
      /\ Constructed)

\* C6 (amended): requesting a strategy other than Tree with a noise source whose
\* type is not Laplace fails with NotImplementedError and assigns no attribute;
\* requesting Tree with such a noise source constructs the store.
C6_NonTreeRejectsNonLaplace ==
  (cls = "NoisePartialSumStore" /\ noise_type # "laplacian") =>
    IF requested # "tree"
    THEN raised = "NotImplementedError" /\ attrs = {} /\ ~Constructed
    ELSE Constructed /\ release_method = "tree"

C6_Witness ==
  /\ cls = "NoisePartialSumStore" /\ requested = "sqrt" /\ noise_type = "gaussian"
  /\ raised = "NotImplementedError" /\ attrs = {}

\* C7: an unrecognised strategy name makes the constructor raise before it has
\* assigned any attribute; a store that was constructed carries the strategy it
\* was constructed with in every state any sequence of adds and releases reaches.
C7_StrategyCheckedAndFixed ==
  cls = "NoisePartialSumStore" =>
    /\ requested \notin {"tree", "every", "once", "sqrt", "hybrid"} =>
         (raised = "NotImplementedError" /\ attrs = {} /\ release_method = "unset")
    /\ Constructed => release_method = requested

C7_Witness ==
  /\ cls = "NoisePartialSumStore" /\ requested = "bogus" /\ noise_type = "laplacian"
  /\ raised = "NotImplementedError" /\ attrs = {}

\* C8: after adds at times 1..n, the value release() returns is the sum of the
\* noise fields of the partial sums the store holds at that moment.
C8_ReleaseAdditivity ==
  (Constructed /\ consec /\ IsSet(released)) => Val(released) = HeldNoise

C8_Witness ==
  /\ cls = "HybridPartialSumStore" /\ consec /\ IsSet(released)
  /\ IsSet(log_store) /\ Cardinality(DOMAIN tree_store) = 2
  /\ Val(released) = 3

\* C9: a release changes no stored partial sum and no other field of the store,
\* and a release that follows a release returns the same value.
C9_ReleaseIdempotent ==
  [][(IsSet(released') /\ n' = n) =>
       /\ store' = store /\ twolevel' = twolevel /\ hybrid' = hybrid /\ config' = config
       /\ (IsSet(released) => released' = released)]_vars

C9_Witness ==
  /\ cls = "HybridPartialSumStore" /\ IsSet(released)
  /\ IsSet(log_store) /\ DOMAIN tree_store # {} /\ Val(released) >= 2

\* C10: release on a freshly constructed store, whatever the strategy, returns
\* zero and raises nothing.
C10_ReleaseOnEmptyStore ==
  (Constructed /\ n = 0) =>
    /\ raised = "none"
    /\ (IsSet(released) => Val(released) = 0)

C10_Witness ==
  /\ Constructed /\ n = 0 /\ IsSet(released) /\ cls = "TreePartialSumStore"

\* C11: Tree strategy with a sampler that returns 1 at every draw: after n >= 1
\* adds at times 1..n every stored entry carries one draw (noise 1, a merged
\* entry a single fresh draw, not the sum of its children), so release()
\* returns popcount(n).
C11_TreeOnesReleasePopcount ==
  (IsTree /\ consec /\ n >= 1) =>
    /\ \A k \in DOMAIN store : store[k].noise = 1
    /\ (IsSet(released) => Val(released) = Cardinality(BinaryPowers(n)))

C11_Witness ==
  /\ cls = "TreePartialSumStore" /\ consec /\ n = 7
  /\ Sizes(store) = {4, 2, 1} /\ released = Some(3)

\* C12: Two-Level strategy, for any sequence of adds: at most one single-level
\* and one block-level partial sum are held (never more than 2 entries, the
\* keyed store of the base class stays empty), and the pending entry new_psum
\* is empty once an add has returned.
TwoLevelEntries ==
  (IF IsSet(single_level_store) THEN 1 ELSE 0) + (IF IsSet(block_level_store) THEN 1 ELSE 0)

C12_TwoLevelBound ==
  (cls = "TwoLevelPartialSumStore" /\ Constructed) =>
    /\ Len(single_level_store) <= 1 /\ Len(block_level_store) <= 1
    /\ TwoLevelEntries + Cardinality(DOMAIN store) <= 2
    /\ new_psum = None

C12_Witness ==
  /\ cls = "TwoLevelPartialSumStore" /\ n = MaxAdds /\ ~consec
  /\ TwoLevelEntries = 2 /\ new_psum = None

\* C13: Sqrt strategy with b = floor(sqrt(T)) >= 1, after n >= 1 adds at times
\* 1..n: the store is exactly (i) when n >= b, one block-level entry keyed
\* START_TIME of size b * floor(n / b), and (ii) unit entries (size 1) at the
\* times b * floor(n / b) + 1 .. n; so it never holds more than b entries.
C13_SqrtStoreShape ==
  (NStore("sqrt") /\ consec /\ n >= 1) =>
    LET b == block_size_of(T)
        folded == b * (n \div b)
    IN /\ b >= 1
       /\ DOMAIN store = (IF n >= b THEN {START_TIME} ELSE {}) \cup ((folded + 1)..n)
       /\ n >= b => (store[START_TIME].start = START_TIME /\ store[START_TIME].size = folded)
       /\ \A t \in (folded + 1)..n : store[t].start = t /\ store[t].size = 1
       /\ Cardinality(DOMAIN store) <= b

C13_Witness ==
  /\ NStore("sqrt") /\ consec /\ block_size_of(T) = 3 /\ n = 8
  /\ DOMAIN store = {1, 7, 8} /\ store[1].size = 6 /\ store[7].size = 1

\* C14: Sqrt strategy, adds at times 1..n. When the add at time t completes a
\* block (an entry exists at t - b + 1), every entry of [t - b + 1, t] is
\* deleted, exactly one draw is made, and the START_TIME entry becomes
\* (previous block-level noise + that draw, previous size + b), or (that draw, b)
\* for the first block; another add only inserts its unit entry. The noise of
\* deleted unit entries no longer contributes: release() returns the
\* block-level noise, one draw for each of the floor(n / b) blocks, plus the
\* noise of the n mod b latest unit entries.
C14_SqrtStep ==
  /\ (NStore("sqrt") /\ n' = n + 1 /\ consec') =>
       LET b == block_size_of(T)
           t == n'
           block_start == t - b + 1
           first == block_start = START_TIME
       IN IF block_start \in (DOMAIN store) \cup {t}
          THEN /\ raised' = "none" /\ draws' = 1
               /\ \A u \in block_start..t : u # START_TIME => u \notin DOMAIN store'
               /\ START_TIME \in DOMAIN store'
               /\ store'[START_TIME].start = START_TIME
               /\ store'[START_TIME].size = (IF first THEN 0 ELSE store[START_TIME].size) + b
               /\ store'[START_TIME].noise - (IF first THEN 0 ELSE store[START_TIME].noise)
                    \in NoiseVals
          ELSE /\ raised' = "none" /\ draws' = 0
               /\ store' = Put(store, t, NoisePartialSum(t, 1, sumIn' - sumIn))
  /\ (NStore("sqrt") /\ consec' /\ n' >= 1 /\ IsSet(released')) =>
       LET b == block_size_of(T)
           folded == b * (n' \div b)
           blocks == IF n' >= b THEN store'[START_TIME].noise ELSE 0
       IN /\ Val(released') = blocks + SumOver(store', (folded + 1)..n')
          /\ blocks <= n' \div b
          /\ Val(released') <= (n' \div b) + (n' % b)

C14_SqrtBlockFold == [][C14_SqrtStep]_vars

C14_Witness ==
  /\ NStore("sqrt") /\ consec /\ block_size_of(T) = 3 /\ n = 7
  /\ DOMAIN store = {1, 7} /\ store[1].size = 6 /\ store[1].noise = 2
  /\ store[7].noise = 1 /\ released = Some(3)

\* C15: Sqrt strategy, strictly increasing times with a gap: after adds at the
\* times 1..n, n < b, an add at a later time than n + 1 skips step n + 1 of the
\* first block; that add completes without error and leaves unit entries only.
C15_SqrtGapNeverConsolidates ==
  [][(NStore("sqrt") /\ consec /\ n < block_size_of(T) /\ n' = n + 1 /\ maxTime' > n + 1) =>
       /\ raised' = "none"
       /\ \A k \in DOMAIN store' : store'[k].start = k /\ store'[k].size = 1]_vars

\* C16: Hybrid strategy, adds at times 1..t: after the add at a power of two
\* t > START_TIME exactly one partial sum is held, at START_TIME with size t,
\* whose noise is the previous log-level noise plus the noise of this step;
\* every tree-level entry held before the add is gone.
C16_HybridCollapseStep ==
  (IsHybrid /\ n' = n + 1 /\ consec' /\ n' > START_TIME /\ is_power_of_two(n')) =>
    LET t == n'
        step_noise == sumIn' - sumIn
    IN /\ raised' = "none"
       /\ IF cls = "NoisePartialSumStore"
          THEN store' = [x \in {START_TIME} |->
                           NoisePartialSum(START_TIME, t, store[START_TIME].noise + step_noise)]
          ELSE /\ log_store' = Some(NoisePartialSum(START_TIME, t,
                                                    Val(log_store).noise + step_noise))
               /\ tree_store' = EmptyDict /\ new_noise' = None /\ store' = EmptyDict

C16_HybridCollapse == [][C16_HybridCollapseStep]_vars

C16_Witness ==
  /\ cls = "HybridPartialSumStore" /\ consec /\ n = 8 /\ sumIn = 8
  /\ tree_store = EmptyDict /\ log_store = Some(NoisePartialSum(START_TIME, 8, 4))

\* C17: Hybrid strategy, after adds at times 1..t, t >= 1, with
\* p = 2^floor(log2 t): one log-level entry (start START_TIME, size p) is held,
\* and the tree-level entries have pairwise distinct sizes that are exactly the
\* powers of two of the binary representation of t - p and tile (p, t]; no
\* tree-level entry is merged into the log-level entry, and at most
\* 1 + floor(log2 t) entries are held.
C17_HybridShape ==
  (IsHybrid /\ consec /\ n >= 1) =>
    LET t == n
        p == Pow2(Log2Floor(t))
    IN /\ IsSet(HybridLog)
       /\ Val(HybridLog).start = START_TIME /\ Val(HybridLog).size = p
       /\ Sizes(HybridTree) = BinaryPowers(t - p)
       /\ Cardinality(DOMAIN HybridTree) = Cardinality(BinaryPowers(t - p))
       /\ Tiles(HybridTree, p + 1, t)
       /\ \A k \in DOMAIN HybridTree : k > p
       /\ 1 + Cardinality(DOMAIN HybridTree) <= 1 + Log2Floor(t)

C17_Witness ==
  /\ NStore("hybrid") /\ consec /\ n = 15
  /\ DOMAIN store = {1, 9, 13, 15}
  /\ store[1].size = 8 /\ store[9].size = 4 /\ store[13].size = 2 /\ store[15].size = 1

\* C18: Two-Level strategy with block_size b >= 1, after n >= 1 adds at times
\* 1..n: the block-level entry is present iff n >= b, with start START and
\* size b * floor(n / b); the single-level entry is present iff n mod b # 0,
\* with size n mod b and start b * floor(n / b) + 1. Each add sums its unit
\* noise into the single-level entry, which is cleared (after one draw) exactly
\* when its size reaches b.
C18_TwoLevelStep ==
  /\ (cls = "TwoLevelPartialSumStore" /\ consec' /\ n' >= 1) =>
       LET b == block_size
           folded == b * (n' \div b)
       IN /\ b >= 1
          /\ IsSet(block_level_store') <=> n' >= b
          /\ IsSet(block_level_store') =>
               /\ Val(block_level_store').start = START_TIME
               /\ Val(block_level_store').size = folded
          /\ IsSet(single_level_store') <=> n' % b # 0
          /\ IsSet(single_level_store') =>
               /\ Val(single_level_store').size = n' % b
               /\ Val(single_level_store').start = folded + 1
  /\ (cls = "TwoLevelPartialSumStore" /\ consec' /\ n' = n + 1) =>
       LET grown == (IF IsSet(single_level_store) THEN Val(single_level_store).size ELSE 0) + 1
           summed == OptNoise(single_level_store) + (sumIn' - sumIn)
       IN /\ single_level_store' = None <=> grown = block_size
          /\ IsSet(single_level_store') => Val(single_level_store').noise = summed
          /\ draws' = IF grown = block_size THEN 1 ELSE 0

C18_TwoLevelShape == [][C18_TwoLevelStep]_vars

C18_Witness ==
  /\ cls = "TwoLevelPartialSumStore" /\ consec /\ block_size = 3 /\ n = 8
  /\ IsSet(block_level_store) /\ Val(block_level_store).size = 6
  /\ single_level_store = Some(NoisePartialSum(7, 2, 2))

\* C19: every add under the Tree and Hybrid strategies returns after finitely
\* many merges (draws counts them): every merge takes one entry off the dict,
\* so there are at most as many merges as entries held before the add, and the
\* entries have size >= 1, so the start recursed on decreases. On adds at
\* times 1..n the add at n stops once the merged entry has no equal-sized left
\* neighbour and makes at most floor(log2 n) merges.
C19_MergeStep ==
  ((IsTree \/ IsHybrid) /\ n' = n + 1) =>
    /\ draws' <= Cardinality(DOMAIN MergeStore)
    /\ Cardinality(DOMAIN MergeStore') + draws' <= Cardinality(DOMAIN MergeStore) + 1
    /\ \A k \in DOMAIN MergeStore' : MergeStore'[k].size >= 1
    /\ consec' => (raised' = "none" /\ ~LastCanMerge(MergeStore') /\ draws' <= Log2Floor(n'))

C19_MergesTerminate == [][C19_MergeStep]_vars

C19_Witness ==
  /\ cls = "TreePartialSumStore" /\ consec /\ n = 16 /\ draws = 4
  /\ DOMAIN store = {START_TIME} /\ store[START_TIME].size = 16

\* C20: Tree strategy, after n >= 1 adds at times 1..n: every entry is keyed by
\* its own start, and the entries in order of start tile [1, n] without gap or
\* overlap (the first starts at 1, each start + size is the start of the next
\* entry, the last ends at n), with strictly decreasing sizes from left to right.
C20_TreeTiling ==
  (IsTree /\ consec /\ n >= 1) =>
    /\ \A k \in DOMAIN store : store[k].start = k
    /\ START_TIME \in DOMAIN store
    /\ \A k \in DOMAIN store :
         (k + store[k].size) \in DOMAIN store \/ k + store[k].size - 1 = n
    /\ Tiles(store, START_TIME, n)
    /\ \A j, k \in DOMAIN store : j < k => store[j].size > store[k].size

C20_Witness ==
  /\ NStore("tree") /\ consec /\ n = 13 /\ DOMAIN store = {1, 9, 13}
  /\ store[1].size = 8 /\ store[9].size = 4 /\ store[13].size = 1

\* C21: a NoisePartialSumStore with release_method 'tree' (consolidation started
\* from the added time) and a TreePartialSumStore (consolidation started from
\* the largest stored start), given the same strictly increasing add times,
\* hold the same set of (start, size) pairs after every add, and every add
\* makes the same number of merges in both; neither raises.
C21_TreeStoresAgree ==
  (Constructed /\ release_method = "tree") =>
    /\ Shape(store) = Shape(peer_store)
    /\ DOMAIN store = DOMAIN peer_store
    /\ draws = peer_draws
    /\ raised = "none" /\ peer_raised = "none"

C21_Witness ==
  /\ Constructed /\ release_method = "tree" /\ ~consec /\ n = 5 /\ maxTime = 7
  /\ Shape(store) = {<<1, 2>>, <<4, 2>>, <<7, 1>>}
  /\ Shape(peer_store) = Shape(store) /\ peer_store # store

\* C22: a NoisePartialSumStore with release_method 'hybrid' and a
\* HybridPartialSumStore, given adds at the same times 1..n: after every add
\* the single map of the first equals {START_TIME: log_store} united with
\* tree_store of the second, as sets of (start, size) pairs and in its keys.
C22_HybridStoresAgree ==
  (Constructed /\ release_method = "hybrid" /\ consec /\ n >= 1) =>
    /\ raised = "none" /\ peer_raised = "none"
    /\ IsSet(log_store)
    /\ START_TIME \notin DOMAIN tree_store
    /\ DOMAIN store = {START_TIME} \cup DOMAIN tree_store
    /\ Shape(store) = {<<Val(log_store).start, Val(log_store).size>>} \cup Shape(tree_store)
    /\ <<store[START_TIME].start, store[START_TIME].size>>
         = <<Val(log_store).start, Val(log_store).size>>

C22_Witness ==
  /\ Constructed /\ release_method = "hybrid" /\ consec /\ n = 7
  /\ Shape(store) = {<<1, 4>>, <<5, 2>>, <<7, 1>>}
  /\ Shape(tree_store) = {<<5, 2>>, <<7, 1>>} /\ Val(log_store).size = 4

\* C23: Hybrid strategy: every noise scale computed as a quotient by
\* log2(time_horizon), time_horizon = 2^floor(log2(time)), in add_noise at a time
\* that is not a power of two and in the merges of _consolidate_helper for the
\* time it is called with, is computed at a time >= 3, so time_horizon >= 2
\* and the divisor floor(log2(time_horizon)) is >= 1, never zero.
C23_HybridDivisorNonZero ==
  \A q \in quotients :
    /\ IsHybrid
    /\ q.time >= 3 /\ ~is_power_of_two(q.time)
    /\ q.time_horizon >= 2
    /\ q.divisor >= 1

C23_Witness ==
  /\ cls = "HybridPartialSumStore" /\ consec /\ n = 12
  /\ quotients = {Quotient(12), Quotient(11)}
  /\ Quotient(11) = [time |-> 11, time_horizon |-> 8, divisor |-> 3]

====
